---- MODULE Spec2Model ----
(***************************************************************************)
(* Model of the MCP client session of                                      *)
(* use-cases/research-agent-mcp-integration/src/tools/mcp_client.py:       *)
(* one MCPClient object, its httpx transport, its cached tool list, and    *)
(* the operations discover_tools, call_tool and close, each run to         *)
(* completion against one server response chosen by the environment.       *)
(*                                                                         *)
(* JSON values are tagged records (JNull, JStr, JObj, JArr); a JSON        *)
(* object is a function from key strings to JSON values.  Texts built by   *)
(* f-strings are sequences of string pieces, concatenated as the code      *)
(* concatenates them.                                                      *)
(***************************************************************************)
EXTENDS Integers, Sequences, FiniteSets, TLC

VARIABLES config, client, _available_tools, wire, ops, last, lastGood, block, built,
          tasks, run

vars == <<config, client, _available_tools, wire, ops, last, lastGood, block, built,
          tasks, run>>

\* ---------------------------------------------------------------- bounds
MaxOps == 3
MaxTools == 2

\* ------------------------------------------------------- Optional[...]
None == <<>>
Some(x) == <<x>>

\* ---------------------------------------------------------- JSON values
JNull == [t |-> "null"]
JStr(s) == [t |-> "str", v |-> s]
JObj(f) == [t |-> "obj", v |-> f]
JArr(s) == [t |-> "arr", v |-> s]
EmptyDict == JObj(<<>>)
EmptyList == JArr(<<>>)

\* dict.get(key, default) on a JSON object
dict_get(d, key, default) == IF key \in DOMAIN d.v THEN d.v[key] ELSE default

\* str(x) as an f-string renders a JSON value: the text pieces of the value
PyStr(x) ==
  CASE x.t = "str" -> <<x.v>>
    [] x.t = "null" -> <<"None">>
    [] x.t = "arr" -> <<"[...]">>
    [] x.t = "obj" ->
         IF "message" \in DOMAIN x.v /\ x.v["message"].t = "str"
         THEN <<"{'message': '", x.v["message"].v, "'}">>
         ELSE <<"{...}">>

\* ------------------------------------------------------------ exceptions
Exc(cls, status, msg) == [cls |-> cls, status |-> status, msg |-> msg]
NoExc == Exc("none", 0, <<>>)

\* MCPClientError and its two subclasses
ClientErrorKinds == {"MCPClientError", "MCPAuthenticationError", "MCPServerError"}

\* ------------------------------------------------------------- the config
ServerUrl == "http://localhost:8787/mcp"
DefaultTimeout == 30
Tokens == {"ghp_token"}
RetryValues == {0, 3}

MCPClientConfig(token, retries) ==
  [server_url |-> ServerUrl, github_token |-> token,
   timeout |-> DefaultTimeout, max_retries |-> retries]

\* ------------------------------------------------------------ the session
\* headers that never carry the credential
_get_headers_noauth(cfg) ==
  ("Content-Type" :> <<"application/json">>)
    @@ ("User-Agent" :> <<"Research-Agent-MCP-Client/1.0">>)

_get_headers(cfg) ==
  LET headers == ("Content-Type" :> <<"application/json">>)
                 @@ ("User-Agent" :> <<"Research-Agent-MCP-Client/1.0">>)
  IN IF cfg.github_token # None
     THEN headers @@ ("Authorization" :> <<"Bearer ", cfg.github_token[1]>>)
     ELSE headers

AsyncClient(timeout, headers) ==
  [timeout |-> timeout, headers |-> headers, is_closed |-> FALSE]

\* ------------------------------------------------------ server responses
ToolNames == {"parsePRP", "createTask"}
ServerMessages == {"bad input"}

ToolEntries ==
  {JObj([name |-> JStr(n)]) : n \in ToolNames}
    \cup {JObj([description |-> JStr("no name")])}

RECURSIVE SeqsUpTo(_, _)
SeqsUpTo(S, n) ==
  IF n = 0 THEN {<<>>}
  ELSE LET shorter == SeqsUpTo(S, n - 1)
       IN shorter \cup {Append(s, x) : s \in {q \in shorter : Len(q) = n - 1}, x \in S}

ErrorValues ==
  {JObj([message |-> JStr(m)]) : m \in ServerMessages}
    \cup {JObj([code |-> JStr("-32000")]), JStr("boom")}

ToolsResults ==
  {JObj([tools |-> JArr(s)]) : s \in SeqsUpTo(ToolEntries, MaxTools)}
    \cup {JObj([tools |-> JNull])}

ContentResults ==
  {JObj([content |-> JArr(<<JObj([type |-> JStr("text"), text |-> JStr("Task created successfully")])>>)])}

\* bodies either operation may be answered with
CommonBodies ==
  {JNull, EmptyDict}
    \cup {JObj([error |-> e]) : e \in ErrorValues}
    \cup {JObj([result |-> r]) : r \in ContentResults \cup {EmptyDict, JNull}}
    \cup {JObj([error |-> e, result |-> r]) :
            e \in {JObj([message |-> JStr(m)]) : m \in ServerMessages},
            r \in ContentResults \cup {JObj([tools |-> JArr(<<JObj([name |-> JStr("parsePRP")])>>)])}}

\* bodies of answers to tools/list and to tools/call
DiscoverBodies == CommonBodies \cup {JObj([result |-> r]) : r \in ToolsResults}
CallBodies == CommonBodies

Body(valid, data) == [valid |-> valid, data |-> data]
Statuses == {200, 401, 404, 500}
NetFailures == {"ConnectError", "ReadTimeout"}

Response(net, status, body) == [net |-> net, status |-> status, body |-> body]

Responses(bodies) ==
  {Response(f, 0, Body(FALSE, JNull)) : f \in NetFailures}
    \cup {Response("ok", s, Body(FALSE, JNull)) : s \in Statuses}
    \cup {Response("ok", 200, Body(TRUE, d)) : d \in bodies}

\* ---------------------------------------------------------------- httpx
\* Response.raise_for_status raises HTTPStatusError unless the status is 2xx
is_success(status) == status >= 200 /\ status <= 299

Request(cl, path, json) ==
  [method |-> "POST", url |-> <<ServerUrl, path>>, headers |-> cl.headers, json |-> json]

\* a client that sends a failed request a second time
post_resend(cl, req, resp) ==
  IF cl.is_closed
  THEN [sent |-> <<>>,
        exc |-> Exc("RuntimeError", 0, <<"Cannot send a request, as the client has been closed.">>)]
  ELSE IF resp.net # "ok"
  THEN [sent |-> <<req, req>>, exc |-> Exc(resp.net, 0, <<resp.net>>)]
  ELSE [sent |-> <<req>>, exc |-> NoExc]

\* AsyncClient.post: what goes on the wire, and the exception it raises if any
post(cl, req, resp) ==
  IF cl.is_closed
  THEN [sent |-> <<>>,
        exc |-> Exc("RuntimeError", 0, <<"Cannot send a request, as the client has been closed.">>)]
  ELSE IF resp.net # "ok"
  THEN [sent |-> <<req>>, exc |-> Exc(resp.net, 0, <<resp.net>>)]
  ELSE [sent |-> <<req>>, exc |-> NoExc]

HTTPStatusError(status) ==
  Exc("HTTPStatusError", status, <<"HTTP status ", ToString(status)>>)

\* ------------------------------------------------------- discover_tools
DiscoverRequest(cl) ==
  Request(cl, "/tools/list",
          [jsonrpc |-> "2.0", id |-> 1, method |-> "tools/list", params |-> <<>>])

\* the names of the entries that have one, the others skipped
tool_names_skip(tools) ==
  IF tools.t # "arr"
  THEN [exc |-> Exc("TypeError", 0, <<"object is not iterable">>), names |-> <<>>]
  ELSE IF \E i \in 1..Len(tools.v) : tools.v[i].t # "obj"
  THEN [exc |-> Exc("TypeError", 0, <<"indices must be integers">>), names |-> <<>>]
  ELSE LET named == SelectSeq(tools.v, LAMBDA e : "name" \in DOMAIN e.v)
       IN [exc |-> NoExc, names |-> [i \in 1..Len(named) |-> named[i].v["name"]]]

\* the names with repeated names dropped, as list(dict.fromkeys(...)) would
tool_names_dedup(tools) ==
  IF tools.t # "arr"
  THEN [exc |-> Exc("TypeError", 0, <<"object is not iterable">>), names |-> <<>>]
  ELSE IF \E i \in 1..Len(tools.v) : tools.v[i].t # "obj"
  THEN [exc |-> Exc("TypeError", 0, <<"indices must be integers">>), names |-> <<>>]
  ELSE IF \E i \in 1..Len(tools.v) : "name" \notin DOMAIN tools.v[i].v
  THEN [exc |-> Exc("KeyError", 0, <<"'name'">>), names |-> <<>>]
  ELSE LET n == [i \in 1..Len(tools.v) |-> tools.v[i].v["name"]]
            first == SelectSeq([i \in 1..Len(n) |-> i],
                               LAMBDA i : \A j \in 1..(i - 1) : n[j] # n[i])
       IN [exc |-> NoExc, names |-> [k \in 1..Len(first) |-> n[first[k]]]]

\* [tool["name"] for tool in tools]: the names in order, or the exception of
\* the first entry that cannot be indexed by "name"
tool_names(tools) ==
  IF tools.t # "arr"
  THEN [exc |-> Exc("TypeError", 0, <<"object is not iterable">>), names |-> <<>>]
  ELSE IF \E i \in 1..Len(tools.v) : tools.v[i].t # "obj"
  THEN [exc |-> Exc("TypeError", 0, <<"indices must be integers">>), names |-> <<>>]
  ELSE IF \E i \in 1..Len(tools.v) : "name" \notin DOMAIN tools.v[i].v
  THEN [exc |-> Exc("KeyError", 0, <<"'name'">>), names |-> <<>>]
  ELSE [exc |-> NoExc, names |-> [i \in 1..Len(tools.v) |-> tools.v[i].v["name"]]]

\* the body of the try block after response.json()
discover_parse(data) ==
  IF data.t # "obj"
  THEN [exc |-> Exc("TypeError", 0, <<"argument is not iterable">>), names |-> <<>>]
  ELSE IF "error" \in DOMAIN data.v
  THEN [exc |-> Exc("MCPServerError", 0,
                    <<"Tool discovery failed: ">> \o PyStr(data.v["error"])),
        names |-> <<>>]
  ELSE LET result == dict_get(data, "result", EmptyDict)
       IN IF result.t # "obj"
          THEN [exc |-> Exc("AttributeError", 0, <<"object has no attribute 'get'">>),
                names |-> <<>>]
          ELSE tool_names(dict_get(result, "tools", EmptyList))

\* the try block: the request, the status check, the JSON decoding, the parse
discover_try(cl, resp) ==
  LET p == post(cl, DiscoverRequest(cl), resp)
  IN IF p.exc # NoExc THEN [sent |-> p.sent, exc |-> p.exc, names |-> <<>>]
     ELSE IF ~is_success(resp.status)
     THEN [sent |-> p.sent, exc |-> HTTPStatusError(resp.status), names |-> <<>>]
     ELSE IF ~resp.body.valid
     THEN [sent |-> p.sent, exc |-> Exc("JSONDecodeError", 0, <<"Expecting value">>),
           names |-> <<>>]
     ELSE LET d == discover_parse(resp.body.data)
          IN [sent |-> p.sent, exc |-> d.exc, names |-> d.names]

\* except clauses whose status message leaves out the underlying error
discover_except_nostatus(e) ==
  IF e.cls = "HTTPStatusError"
  THEN IF e.status = 401
       THEN Exc("MCPAuthenticationError", 0,
                <<"GitHub authentication required for MCP server">>)
       ELSE Exc("MCPClientError", 0, <<"HTTP error during tool discovery: ">>)
  ELSE Exc("MCPClientError", 0, <<"Failed to discover tools: ">> \o e.msg)

\* except clauses that do not single out status 401
discover_except_no401(e) ==
  IF e.cls = "HTTPStatusError"
  THEN Exc("MCPClientError", 0, <<"HTTP error during tool discovery: ">> \o e.msg)
  ELSE Exc("MCPClientError", 0, <<"Failed to discover tools: ">> \o e.msg)

\* the two except clauses: the error that reaches the caller
discover_except(e) ==
  IF e.cls = "HTTPStatusError"
  THEN IF e.status = 401
       THEN Exc("MCPAuthenticationError", 0,
                <<"GitHub authentication required for MCP server">>)
       ELSE Exc("MCPClientError", 0, <<"HTTP error during tool discovery: ">> \o e.msg)
  ELSE Exc("MCPClientError", 0, <<"Failed to discover tools: ">> \o e.msg)

\* a cache that is extended with the names of each response
discover_cache_extend(old, t) ==
  IF t.exc = NoExc
  THEN Some((IF old = None THEN <<>> ELSE old[1]) \o t.names)
  ELSE old

\* a cache that is set to the empty list before the names are collected
discover_cache_empty(old, t) == IF t.exc = NoExc THEN Some(t.names) ELSE Some(<<>>)

\* a cache that is cleared before the request and so lost when the call fails
discover_cache_reset(old, t) == IF t.exc = NoExc THEN Some(t.names) ELSE None

\* self._available_tools after the call: assigned only once the whole list
\* of names has been built
discover_cache(old, t) == IF t.exc = NoExc THEN Some(t.names) ELSE old

discover_tools(cl, cache, resp) ==
  LET t == discover_try(cl, resp)
  IN [sent |-> t.sent,
      outcome |-> IF t.exc = NoExc THEN "return" ELSE "raise",
      ret |-> IF t.exc = NoExc THEN Some(t.names) ELSE None,
      err |-> IF t.exc = NoExc THEN NoExc ELSE discover_except(t.exc),
      cache |-> discover_cache(cache, t)]

\* ------------------------------------------------------------- call_tool
CallNames == {"", "createTask", "listDocumentation"}
Arguments ==
  {EmptyDict,
   JObj([title |-> JStr("T"), description |-> JStr("D"),
         projectName |-> JStr("P"), priority |-> JStr("high")])}

\* an envelope that names the discovery method
request_data_list_method(tool_name, arguments) ==
  [jsonrpc |-> "2.0", id |-> 1, method |-> "tools/list",
   params |-> [name |-> tool_name, arguments |-> arguments]]

\* an envelope that forwards no arguments
request_data_noargs(tool_name, arguments) ==
  [jsonrpc |-> "2.0", id |-> 1, method |-> "tools/call",
   params |-> [name |-> tool_name, arguments |-> EmptyDict]]

request_data(tool_name, arguments) ==
  [jsonrpc |-> "2.0", id |-> 1, method |-> "tools/call",
   params |-> [name |-> tool_name, arguments |-> arguments]]

\* a parse that unwraps the content blocks of the result
call_parse_content(tool_name, data) ==
  IF data.t # "obj"
  THEN [exc |-> Exc("TypeError", 0, <<"argument is not iterable">>), ret |-> None]
  ELSE IF "error" \in DOMAIN data.v
  THEN IF data.v["error"].t # "obj"
       THEN [exc |-> Exc("AttributeError", 0, <<"object has no attribute 'get'">>),
             ret |-> None]
       ELSE LET error_msg == dict_get(data.v["error"], "message", JStr("Unknown MCP error"))
            IN [exc |-> Exc("MCPServerError", 0,
                            <<"Tool '", tool_name, "' failed: ">> \o PyStr(error_msg)),
                ret |-> None]
  ELSE LET result == dict_get(data, "result", EmptyDict)
       IN [exc |-> NoExc,
           ret |-> IF result.t = "obj" /\ "content" \in DOMAIN result.v
                   THEN Some(result.v["content"]) ELSE Some(result)]

\* the body of the try block after response.json()
call_parse(tool_name, data) ==
  IF data.t # "obj"
  THEN [exc |-> Exc("TypeError", 0, <<"argument is not iterable">>), ret |-> None]
  ELSE IF "error" \in DOMAIN data.v
  THEN IF data.v["error"].t # "obj"
       THEN [exc |-> Exc("AttributeError", 0, <<"object has no attribute 'get'">>),
             ret |-> None]
       ELSE LET error_msg == dict_get(data.v["error"], "message", JStr("Unknown MCP error"))
            IN [exc |-> Exc("MCPServerError", 0,
                            <<"Tool '", tool_name, "' failed: ">> \o PyStr(error_msg)),
                ret |-> None]
  ELSE [exc |-> NoExc, ret |-> Some(dict_get(data, "result", EmptyDict))]

call_try(cl, tool_name, arguments, resp) ==
  LET p == post(cl, Request(cl, "/tools/call", request_data(tool_name, arguments)), resp)
  IN IF p.exc # NoExc THEN [sent |-> p.sent, exc |-> p.exc, ret |-> None]
     ELSE IF ~is_success(resp.status)
     THEN [sent |-> p.sent, exc |-> HTTPStatusError(resp.status), ret |-> None]
     ELSE IF ~resp.body.valid
     THEN [sent |-> p.sent, exc |-> Exc("JSONDecodeError", 0, <<"Expecting value">>),
           ret |-> None]
     ELSE LET c == call_parse(tool_name, resp.body.data)
          IN [sent |-> p.sent, exc |-> c.exc, ret |-> c.ret]

\* except clauses that let every error but a status error pass unwrapped
call_except_reraise(tool_name, e) ==
  IF e.cls = "HTTPStatusError"
  THEN IF e.status = 401
       THEN Exc("MCPAuthenticationError", 0,
                <<"Authentication failed for tool '", tool_name, "'">>)
       ELSE IF e.status = 404
       THEN Exc("MCPClientError", 0, <<"Tool '", tool_name, "' not found on server">>)
       ELSE Exc("MCPClientError", 0,
                <<"HTTP error calling tool '", tool_name, "': ">> \o e.msg)
  ELSE e

\* except clauses that do not single out status 404
call_except_no404(tool_name, e) ==
  IF e.cls = "HTTPStatusError"
  THEN IF e.status = 401
       THEN Exc("MCPAuthenticationError", 0,
                <<"Authentication failed for tool '", tool_name, "'">>)
       ELSE Exc("MCPClientError", 0,
                <<"HTTP error calling tool '", tool_name, "': ">> \o e.msg)
  ELSE Exc("MCPClientError", 0, <<"Failed to call tool '", tool_name, "': ">> \o e.msg)

call_except(tool_name, e) ==
  IF e.cls = "HTTPStatusError"
  THEN IF e.status = 401
       THEN Exc("MCPAuthenticationError", 0,
                <<"Authentication failed for tool '", tool_name, "'">>)
       ELSE IF e.status = 404
       THEN Exc("MCPClientError", 0, <<"Tool '", tool_name, "' not found on server">>)
       ELSE Exc("MCPClientError", 0,
                <<"HTTP error calling tool '", tool_name, "': ">> \o e.msg)
  ELSE Exc("MCPClientError", 0, <<"Failed to call tool '", tool_name, "': ">> \o e.msg)

call_tool(cl, tool_name, arguments, resp) ==
  LET t == call_try(cl, tool_name, arguments, resp)
  IN [sent |-> t.sent,
      outcome |-> IF t.exc = NoExc THEN "return" ELSE "raise",
      ret |-> t.ret,
      err |-> IF t.exc = NoExc THEN NoExc ELSE call_except(tool_name, t.exc)]

\* ----------------------------------------------------------------- close
\* a transport that refuses to be closed twice
aclose_once(cl) ==
  IF cl.is_closed
  THEN [client |-> cl, exc |-> Exc("RuntimeError", 0, <<"client already closed">>)]
  ELSE [client |-> [cl EXCEPT !.is_closed = TRUE], exc |-> NoExc]

\* AsyncClient.aclose: closes the transport unless it is closed already
aclose(cl) == [client |-> [cl EXCEPT !.is_closed = TRUE], exc |-> NoExc]

close(cl) ==
  LET a == aclose(cl)
  IN [client |-> a.client,
      outcome |-> IF a.exc = NoExc THEN "return" ELSE "raise",
      err |-> a.exc]

\* --------------------------------------------------------- the state machine
\* ------------------------------------------------ __aenter__ / __aexit__
\* where the session stands with respect to an async with block, the
\* exception that ended the block and the one that left it
NoBlock == [scope |-> "none", ended_by |-> NoExc, propagated |-> NoExc]

\* __aenter__ returns self: the block is entered, nothing else happens
__aenter__(cl) == "inside"

\* an exit that releases the transport only when the block ended normally
__aexit___on_success(cl, exc) ==
  IF exc = NoExc
  THEN LET c == close(cl) IN [client |-> c.client, exc |-> c.err, suppress |-> FALSE]
  ELSE [client |-> cl, exc |-> NoExc, suppress |-> FALSE]

\* __aexit__ awaits close() and returns None, which suppresses nothing
__aexit__(cl, exc) ==
  LET c == close(cl) IN [client |-> c.client, exc |-> c.err, suppress |-> FALSE]

\* the exception that leaves an async with statement: the one __aexit__
\* raised, else the block's own unless __aexit__ returned a true value
with_exit(exc, x) ==
  IF x.exc # NoExc THEN x.exc
  ELSE IF exc # NoExc /\ ~x.suppress THEN exc
  ELSE NoExc

\* what the last operation was given, did and produced
Op(name, tool_name, arguments, resp, r, cl, cache) ==
  [op |-> name, tool_name |-> tool_name, arguments |-> arguments, resp |-> resp,
   sent |-> r.sent, outcome |-> r.outcome, ret |-> r.ret, err |-> r.err,
   was_closed |-> cl.is_closed, cache_before |-> cache]

NoResponse == Response("none", 0, Body(FALSE, JNull))
NoOp ==
  [op |-> "init", tool_name |-> "", arguments |-> EmptyDict, resp |-> NoResponse,
   sent |-> <<>>, outcome |-> "return", ret |-> None, err |-> NoExc,
   was_closed |-> FALSE, cache_before |-> None]

\* ------------------------------------------------------- ResearchRequest
\* Field(default=10, ge=1, le=20) of search_depth
DefaultDepth == 10
MinDepth == 1
MaxDepth == 20

\* how far below MinDepth and above MaxDepth the depths tried go, and how
\* many requests are constructed
DepthSlack == 3
MaxBuilds == 2

Topics == {"Next.js 15 features", "Test topic"}
DepthInputs == {None} \cup {Some(d) : d \in (MinDepth - DepthSlack)..(MaxDepth + DepthSlack)}

\* a model whose bounds are exclusive (gt / lt)
ResearchRequest_exclusive(topic, search_depth) ==
  LET depth == IF search_depth = None THEN DefaultDepth ELSE search_depth[1]
  IN IF search_depth # None /\ ~(depth > MinDepth /\ depth < MaxDepth)
     THEN [outcome |-> "ValidationError", request |-> None]
     ELSE [outcome |-> "ok",
           request |-> Some([topic |-> topic, project_goals |-> None, target_users |-> None,
                             constraints |-> None, timeline |-> None,
                             search_depth |-> depth, focus_areas |-> None])]

\* ResearchRequest(topic=..., search_depth=...): the default is taken when
\* the field is omitted, a given value is validated against ge and le
ResearchRequest(topic, search_depth) ==
  LET depth == IF search_depth = None THEN DefaultDepth ELSE search_depth[1]
  IN IF search_depth # None /\ ~(depth >= MinDepth /\ depth <= MaxDepth)
     THEN [outcome |-> "ValidationError", request |-> None]
     ELSE [outcome |-> "ok",
           request |-> Some([topic |-> topic, project_goals |-> None, target_users |-> None,
                             constraints |-> None, timeline |-> None,
                             search_depth |-> depth, focus_areas |-> None])]

\* the last construction: what was given and what came of it
NoBuild == [n |-> 0, topic |-> "", given |-> None, outcome |-> "none", request |-> None]

\* ------------------------------------------------- the helper functions
JNum(n) == [t |-> "num", v |-> n]

\* the truth value Python gives an optional string, and an optional list
truthy_str(x) == x # None /\ x[1] # ""
truthy_list(x) == x # None /\ x[1] # <<>>

\* isinstance(e, MCPClientError): the base kind and its two subclasses
is_client_error(e) == e.cls \in ClientErrorKinds

\* the one element of a singleton set: the({e(x) : x \in {v}}) is e with x
\* standing for the value of v
the(S) == CHOOSE v \in S : TRUE

\* one call_tool invocation: what it was given and what came of it
Invocation(tool_name, arguments, r) ==
  [tool_name |-> tool_name, arguments |-> arguments, sent |-> r.sent,
   outcome |-> r.outcome, ret |-> r.ret, err |-> r.err]

\* a keyword argument that is added to the arguments only when cond holds
optional(cond, key, value) == IF cond THEN key :> value ELSE <<>>

DefaultLimit == 50
ProjectNames == {"", "Research Project"}

list_tasks_via_mcp(cl, project_name, status, assigned_to, limit, resp) ==
  LET arguments ==
        JObj(("limit" :> JNum(limit))
               @@ optional(truthy_str(project_name), "projectName", JStr(project_name[1]))
               @@ optional(truthy_str(status), "status", JStr(status[1]))
               @@ optional(truthy_str(assigned_to), "assignedTo", JStr(assigned_to[1])))
  IN Invocation("listTasks", arguments, call_tool(cl, "listTasks", arguments, resp))

\* the result that stands for a documentation listing that failed
DocsPlaceholder ==
  JObj([content |-> JArr(<<JObj([text |-> JStr("Documentation listing not available")])>>)])

\* a probe whose handler catches the base kind only, not its subclasses
documentation_probe_narrow(cl, project_name, resp) ==
  LET arguments == JObj([projectName |-> JStr(project_name)])
      d == Invocation("listDocumentation", arguments,
                      call_tool(cl, "listDocumentation", arguments, resp))
  IN IF d.outcome = "return" THEN [call |-> d, docs_result |-> d.ret[1], exc |-> NoExc]
     ELSE IF d.err.cls = "MCPClientError"
     THEN [call |-> d, docs_result |-> DocsPlaceholder, exc |-> NoExc]
     ELSE [call |-> d, docs_result |-> JNull, exc |-> d.err]

\* the inner try of get_project_status_via_mcp: the listDocumentation call
\* and the except MCPClientError clause that replaces its failure
documentation_probe(cl, project_name, resp) ==
  LET arguments == JObj([projectName |-> JStr(project_name)])
      d == Invocation("listDocumentation", arguments,
                      call_tool(cl, "listDocumentation", arguments, resp))
  IN IF d.outcome = "return" THEN [call |-> d, docs_result |-> d.ret[1], exc |-> NoExc]
     ELSE IF is_client_error(d.err)
     THEN [call |-> d, docs_result |-> DocsPlaceholder, exc |-> NoExc]
     ELSE [call |-> d, docs_result |-> JNull, exc |-> d.err]

\* the outer except Exception clause of get_project_status_via_mcp
status_except(project_name, e) ==
  Exc("MCPClientError", 0,
      <<"Failed to get project status for '", project_name, "': ">> \o e.msg)

\* the return statement of get_project_status_via_mcp, or the error raised
\* in its place when the documentation probe let an exception pass
status_result(project_name, t, d) ==
  IF d.exc # NoExc
  THEN [calls |-> <<t, d.call>>, outcome |-> "raise", ret |-> None,
        err |-> status_except(project_name, d.exc)]
  ELSE [calls |-> <<t, d.call>>, outcome |-> "return",
        ret |-> Some([project_name |-> project_name,
                      tasks |-> IF t.outcome = "return" THEN t.ret[1] ELSE JNull,
                      documentation |-> d.docs_result,
                      status |-> "active"]),
        err |-> NoExc]

\* a status query that goes on to the documentation when listTasks failed
get_project_status_via_mcp_lenient(cl, project_name, resp1, resp2) ==
  the({status_result(project_name, t, d) :
         t \in {list_tasks_via_mcp(cl, Some(project_name), None, None, DefaultLimit, resp1)},
         d \in {documentation_probe(cl, project_name, resp2)}})

get_project_status_via_mcp(cl, project_name, resp1, resp2) ==
  the({IF t.outcome = "raise"
       THEN [calls |-> <<t>>, outcome |-> "raise", ret |-> None,
             err |-> status_except(project_name, t.err)]
       ELSE status_result(project_name, t, d) :
         t \in {list_tasks_via_mcp(cl, Some(project_name), None, None, DefaultLimit, resp1)},
         d \in {documentation_probe(cl, project_name, resp2)}})

\* the arguments of createTask with every optional one tested for truth
create_task_via_mcp_truthy(cl, title, description, project_name, priority, estimated_hours, assigned_to, tags, resp) ==
  LET arguments ==
        JObj(("title" :> JStr(title)) @@ ("description" :> JStr(description))
               @@ ("projectName" :> JStr(project_name)) @@ ("priority" :> JStr(priority))
               @@ optional(estimated_hours # None /\ estimated_hours # Some(0),
                           "estimatedHours", JNum(estimated_hours[1]))
               @@ optional(truthy_str(assigned_to), "assignedTo", JStr(assigned_to[1]))
               @@ optional(truthy_list(tags), "tags",
                           JArr([i \in 1..Len(tags[1]) |-> JStr(tags[1][i])])))
      c == Invocation("createTask", arguments, call_tool(cl, "createTask", arguments, resp))
  IN [calls |-> <<c>>, outcome |-> c.outcome, ret |-> c.ret, err |-> c.err]

create_task_via_mcp(cl, title, description, project_name, priority, estimated_hours, assigned_to, tags, resp) ==
  LET arguments ==
        JObj(("title" :> JStr(title)) @@ ("description" :> JStr(description))
               @@ ("projectName" :> JStr(project_name)) @@ ("priority" :> JStr(priority))
               @@ optional(estimated_hours # None, "estimatedHours", JNum(estimated_hours[1]))
               @@ optional(truthy_str(assigned_to), "assignedTo", JStr(assigned_to[1]))
               @@ optional(truthy_list(tags), "tags",
                           JArr([i \in 1..Len(tags[1]) |-> JStr(tags[1][i])])))
      c == Invocation("createTask", arguments, call_tool(cl, "createTask", arguments, resp))
  IN [calls |-> <<c>>, outcome |-> c.outcome, ret |-> c.ret, err |-> c.err]

\* the optional inputs of create_task_via_mcp: omitted, empty, given
Priorities == {"medium", "high"}
HoursInputs == {None, Some(0), Some(8)}
AssigneeInputs == {None, Some(""), Some("octocat")}
TagsInputs == {None, Some(<<>>), Some(<<"backend", "api">>)}

\* ------------------------------------------------------ the research agent
\* a ResearchAgentDependencies instance, as its __dict__: the dataclass sets
\* every field, the two optional ones to None when they are not given
ResearchAgentDependencies(brave_api_key, anthropic_api_key, mcp_server_url, github_token, session_id) ==
  [brave_api_key |-> Some(brave_api_key), anthropic_api_key |-> Some(anthropic_api_key),
   mcp_server_url |-> Some(mcp_server_url), github_token |-> github_token,
   session_id |-> session_id]

\* the dependencies a caller hands to the workflow and the ids uuid4 yields
DependencyInputs ==
  {ResearchAgentDependencies("BSA-key", "sk-ant-key", ServerUrl, tok, sid) :
     tok \in {None} \cup {Some(k) : k \in Tokens},
     sid \in {None, Some("caller-session")}}
SessionIds == {"uuid-1", "uuid-2"}

\* what research_agent.run does once it is called: it raises, or returns a
\* result whose data is a ResearchOutput
AgentOutcomes ==
  {[exc |-> Exc("UnexpectedModelBehavior", 0, <<"model request failed">>), data |-> None]}
    \cup {[exc |-> NoExc,
           data |-> Some([success |-> ok, project_name |-> "Research Project",
                          search_results_count |-> 10, tasks_created |-> n,
                          documentation_created |-> 2, estimated_hours |-> 40,
                          next_steps |-> <<"Review the tasks">>,
                          error_message |-> IF ok THEN None ELSE Some("parse failed")])] :
            ok \in BOOLEAN, n \in {0, 5}}

\* ResearchAgentDependencies(**dependencies.__dict__, session_id=session_id):
\* a keyword given twice in one call is a TypeError
with_session_id(dependencies, session_id) ==
  IF "session_id" \in DOMAIN dependencies
  THEN [exc |-> Exc("TypeError", 0,
                    <<"ResearchAgentDependencies() got multiple values for keyword argument '",
                      "session_id", "'">>),
        deps |-> None]
  ELSE [exc |-> NoExc, deps |-> Some(dependencies @@ [session_id |-> Some(session_id)])]

\* ResearchResponse(...): the fields given, the others at their defaults
ResearchResponse(given) ==
  given @@ [tasks_created |-> 0, documentation_created |-> 0, project_name |-> None,
            estimated_hours |-> None, next_steps |-> <<>>, error_message |-> None]

\* a failure response that reports the PRP as generated
workflow_except_generated(request, session_id, e) ==
  ResearchResponse([success |-> FALSE, session_id |-> session_id, topic |-> request.topic,
                    search_results_count |-> 0, prp_generated |-> TRUE,
                    prp_parsed |-> FALSE, error_message |-> Some(e.msg)])

\* the except Exception clause of conduct_research_and_create_project
workflow_except(request, session_id, e) ==
  ResearchResponse([success |-> FALSE, session_id |-> session_id, topic |-> request.topic,
                    search_results_count |-> 0, prp_generated |-> FALSE,
                    prp_parsed |-> FALSE, error_message |-> Some(e.msg)])

\* the response built from the agent's output
workflow_response(request, session_id, data) ==
  ResearchResponse([success |-> data.success, session_id |-> session_id,
                    topic |-> request.topic,
                    search_results_count |-> data.search_results_count,
                    prp_generated |-> TRUE, prp_parsed |-> data.success,
                    tasks_created |-> data.tasks_created,
                    documentation_created |-> data.documentation_created,
                    project_name |-> Some(data.project_name),
                    estimated_hours |-> Some(data.estimated_hours),
                    next_steps |-> data.next_steps,
                    error_message |-> data.error_message])

\* session_id is the uuid drawn at line 342, agent what research_agent.run
\* does if it is reached; the arguments of the call are evaluated first
conduct_research_and_create_project(request, dependencies, session_id, agent) ==
  LET d == with_session_id(dependencies, session_id)
  IN IF d.exc # NoExc
     THEN [outcome |-> "return", agent_runs |-> 0, agent_deps |-> None, caught |-> d.exc,
           response |-> workflow_except(request, session_id, d.exc)]
     ELSE IF agent.exc # NoExc
     THEN [outcome |-> "return", agent_runs |-> 1, agent_deps |-> d.deps, caught |-> agent.exc,
           response |-> workflow_except(request, session_id, agent.exc)]
     ELSE [outcome |-> "return", agent_runs |-> 1, agent_deps |-> d.deps, caught |-> NoExc,
           response |-> workflow_response(request, session_id, agent.data[1])]

\* --------------------------------- _extract_project_data_from_mcp_response
\* A text is the sequence of its lines, the pieces '\n' separates; a line is
\* the sequence of its segments, the pieces ':' separates.  A marker ends
\* with a colon, so a line contains it when a segment that is followed by a
\* colon is the marker's words.
TasksMarker == "Total Tasks Extracted"
DocsMarker == "Documentation Sections"
HoursMarker == "Estimated Total Hours"
Markers == {TasksMarker, DocsMarker, HoursMarker}

MaxLines == 2

\* what may follow the last colon of a line
Tails == {" 5", "12", " 7 hours"}

Lines ==
  {<<v>> : v \in Tails}
    \cup {<<m, v>> : m \in Markers, v \in Tails}
    \cup {<<m1, m2, " 5">> : m1 \in Markers, m2 \in Markers}

Texts == SeqsUpTo(Lines, MaxLines) \ {<<>>}

\* marker in line
contains(line, marker) == \E i \in 1..(Len(line) - 1) : line[i] = marker

\* str.strip()
strip(s) ==
  CASE s = " 5" -> "5"
    [] s = " 7 hours" -> "7 hours"
    [] OTHER -> s

\* int(s): the number, or none where int raises ValueError
int(s) ==
  CASE s = "5" -> Some(5)
    [] s = "12" -> Some(12)
    [] OTHER -> None

\* int(line.split(':')[-1].strip()) inside try / except: pass
parsed_or(line, previous) ==
  LET n == int(strip(line[Len(line)]))
  IN IF n = None THEN previous ELSE n[1]

\* a loop body that tests every marker on every line
extract_line_independent(line, acc) ==
  [tasks_created |->
     IF contains(line, TasksMarker) THEN parsed_or(line, acc.tasks_created)
     ELSE acc.tasks_created,
   documentation_created |->
     IF contains(line, DocsMarker) THEN parsed_or(line, acc.documentation_created)
     ELSE acc.documentation_created,
   estimated_hours |->
     IF contains(line, HoursMarker) THEN parsed_or(line, acc.estimated_hours)
     ELSE acc.estimated_hours]

\* the body of the loop: if / elif / elif
extract_line(line, acc) ==
  IF contains(line, TasksMarker)
  THEN [acc EXCEPT !.tasks_created = parsed_or(line, acc.tasks_created)]
  ELSE IF contains(line, DocsMarker)
  THEN [acc EXCEPT !.documentation_created = parsed_or(line, acc.documentation_created)]
  ELSE IF contains(line, HoursMarker)
  THEN [acc EXCEPT !.estimated_hours = parsed_or(line, acc.estimated_hours)]
  ELSE acc

RECURSIVE extract_lines(_, _)
extract_lines(lines, acc) ==
  IF lines = <<>> THEN acc
  ELSE extract_lines(Tail(lines), extract_line(Head(lines), acc))

_extract_project_data_from_mcp_response(response_text) ==
  extract_lines(response_text,
                [tasks_created |-> 0, documentation_created |-> 0, estimated_hours |-> 0])

\* ------------------------------------------------- the agent's MCP tools
\* a JSON string given as the text it holds, line by line
JText(lines) == [t |-> "text", v |-> lines]

\* the results a parsePRP call may come back with, besides those of any call
ParseResults ==
  {JObj([content |-> JArr(<<JObj([type |-> JStr("text"), text |-> JText(x)])>>)]) :
     x \in {<<<<"PRP parsed">>, <<TasksMarker, " 5">>, <<HoursMarker, "12">>>>,
            <<<<DocsMarker, " 7 hours">>>>}}
    \cup {JObj([content |-> EmptyList]),
          JObj([content |-> JArr(<<JNull>>)]),
          JObj([content |-> JArr(<<JObj([type |-> JStr("text")])>>)]),
          JObj([content |-> JArr(<<JObj([text |-> JNull])>>)])}

ParseBodies == CallBodies \cup {JObj([result |-> r]) : r \in ParseResults}

\* the truth value Python gives a JSON value
truthy_json(x) ==
  CASE x.t = "null" -> FALSE
    [] x.t = "num" -> x.v # 0
    [] x.t = "str" -> x.v # ""
    [] OTHER -> x.v # <<>>

parse_prp_via_mcp(cl, prp_content, project_name, project_context, resp) ==
  LET arguments ==
        JObj(("prpContent" :> JStr(prp_content))
               @@ optional(truthy_str(project_name), "projectName", JStr(project_name[1]))
               @@ optional(truthy_str(project_context), "projectContext",
                           JStr(project_context[1])))
  IN Invocation("parsePRP", arguments, call_tool(cl, "parsePRP", arguments, resp))

\* response_text.split('\n'), then ':' within each line: a plain string of
\* the model holds neither, and only a string can be split
split_lines(content_text) ==
  IF content_text.t = "text" THEN [exc |-> NoExc, lines |-> content_text.v]
  ELSE IF content_text.t = "str" THEN [exc |-> NoExc, lines |-> <<<<content_text.v>>>>]
  ELSE [exc |-> Exc("AttributeError", 0, <<"object has no attribute 'split'">>),
        lines |-> <<>>]

\* lines 204-222: what the block does with the result of the parsePRP call
parse_handle(parse_result, project_name) ==
  IF parse_result.t # "obj"
  THEN [exc |-> Exc("TypeError", 0, <<"argument of type 'NoneType' is not iterable">>),
        ret |-> None]
  ELSE IF ~("content" \in DOMAIN parse_result.v /\ truthy_json(parse_result.v["content"]))
  THEN [exc |-> NoExc,
        ret |-> Some([success |-> FALSE,
                      error |-> <<"Failed to parse PRP - no content returned from MCP server">>])]
  ELSE LET content == parse_result.v["content"]
       IN IF content.t # "arr"
          THEN [exc |-> Exc("KeyError", 0, <<"0">>), ret |-> None]
          ELSE IF content.v[1].t # "obj"
          THEN [exc |-> Exc("AttributeError", 0, <<"object has no attribute 'get'">>),
                ret |-> None]
          ELSE LET content_text == dict_get(content.v[1], "text", JStr(""))
                   l == split_lines(content_text)
               IN IF l.exc # NoExc THEN [exc |-> l.exc, ret |-> None]
                  ELSE LET project_data == _extract_project_data_from_mcp_response(l.lines)
                       IN [exc |-> NoExc,
                           ret |-> Some([success |-> TRUE, project_name |-> project_name,
                                         parse_result |-> parse_result,
                                         tasks_created |-> project_data.tasks_created,
                                         documentation_created |->
                                           project_data.documentation_created,
                                         estimated_hours |-> project_data.estimated_hours])]

\* except clauses that handle the errors of the MCP client only
parse_except_client_only(e) ==
  IF is_client_error(e)
  THEN [outcome |-> "return", err |-> NoExc,
        ret |-> Some([success |-> FALSE, error |-> <<"MCP client error: ">> \o e.msg])]
  ELSE [outcome |-> "raise", err |-> e, ret |-> None]

\* the two except clauses of parse_prp_and_create_project
parse_except(e) ==
  IF is_client_error(e)
  THEN [outcome |-> "return", err |-> NoExc,
        ret |-> Some([success |-> FALSE, error |-> <<"MCP client error: ">> \o e.msg])]
  ELSE [outcome |-> "return", err |-> NoExc,
        ret |-> Some([success |-> FALSE, error |-> <<"Unexpected error: ">> \o e.msg])]

\* MCPClient(MCPClientConfig(server_url=..., github_token=...)): the session
\* a tool opens for itself, max_retries at its default
tool_session(deps) ==
  LET mcp_config == MCPClientConfig(deps.github_token, 3)
  IN AsyncClient(mcp_config.timeout, _get_headers(mcp_config))

\* the body of the async with block: the call, then lines 204-222
parse_block(p, project_name) ==
  IF p.outcome = "raise" THEN [exc |-> p.err, ret |-> None]
  ELSE parse_handle(p.ret[1], project_name)

\* the block is left through __aexit__, and the exception that leaves it, if
\* any, reaches the except clauses
parse_leave(mcp_client, p, b) ==
  the({[calls |-> <<p>>, session |-> x.client, left_by |-> with_exit(b.exc, x),
        outcome |-> r.outcome, ret |-> r.ret, err |-> r.err] :
         x \in {__aexit__(mcp_client, b.exc)},
         r \in {IF with_exit(b.exc, __aexit__(mcp_client, b.exc)) = NoExc
                THEN [outcome |-> "return", err |-> NoExc, ret |-> b.ret]
                ELSE parse_except(with_exit(b.exc, __aexit__(mcp_client, b.exc)))}})

parse_prp_and_create_project(deps, prp_content, project_name, resp) ==
  the({the({parse_leave(tool_session(deps), p, b) : b \in {parse_block(p, project_name)}}) :
         p \in {parse_prp_via_mcp(tool_session(deps), prp_content, Some(project_name),
                                  None, resp)}})

\* an except clause that handles the base kind only, not its subclasses
status_except_tool_base_only(project_name, e) ==
  IF e.cls = "MCPClientError"
  THEN [outcome |-> "return", err |-> NoExc,
        ret |-> Some([project_name |-> project_name, error |-> e.msg, status |-> "error"])]
  ELSE [outcome |-> "raise", err |-> e, ret |-> None]

\* the except MCPClientError clause of get_project_status
status_except_tool(project_name, e) ==
  IF is_client_error(e)
  THEN [outcome |-> "return", err |-> NoExc,
        ret |-> Some([project_name |-> project_name, error |-> e.msg, status |-> "error"])]
  ELSE [outcome |-> "raise", err |-> e, ret |-> None]

\* the body of the async with block of get_project_status: the listTasks
\* call, and after it the listDocumentation call inside a bare except
status_block(project_name, t, d) ==
  IF t.outcome = "raise" THEN [exc |-> t.err, ret |-> None, calls |-> <<t>>]
  ELSE [exc |-> NoExc,
        ret |-> Some([project_name |-> project_name, tasks |-> t.ret[1],
                      documentation |-> IF d.outcome = "raise" THEN DocsPlaceholder
                                        ELSE d.ret[1],
                      status |-> "active"]),
        calls |-> <<t, d>>]

\* the block is left through __aexit__, and the exception that leaves it, if
\* any, reaches the except clause
status_leave(mcp_client, project_name, b) ==
  the({[calls |-> b.calls, session |-> x.client, left_by |-> with_exit(b.exc, x),
        outcome |-> r.outcome, ret |-> r.ret, err |-> r.err] :
         x \in {__aexit__(mcp_client, b.exc)},
         r \in {IF with_exit(b.exc, __aexit__(mcp_client, b.exc)) = NoExc
                THEN [outcome |-> "return", err |-> NoExc, ret |-> b.ret]
                ELSE status_except_tool(project_name,
                                        with_exit(b.exc, __aexit__(mcp_client, b.exc)))}})

get_project_status(deps, project_name, resp1, resp2) ==
  the({the({status_leave(tool_session(deps), project_name, b) :
              b \in {status_block(project_name, t, d)}}) :
         t \in {Invocation("listTasks", JObj([projectName |-> JStr(project_name)]),
                           call_tool(tool_session(deps), "listTasks",
                                     JObj([projectName |-> JStr(project_name)]), resp1))},
         d \in {Invocation("listDocumentation", JObj([projectName |-> JStr(project_name)]),
                           call_tool(tool_session(deps), "listDocumentation",
                                     JObj([projectName |-> JStr(project_name)]), resp2))}})

\* ----------------------------------------------------------- WebSearchTool
\* Scores and min_score are counted in tenths: 5 stands for 0.5.
MaxResults == 2
MinCount == 1
MaxCount == 20
TopDomains == 5

Urls == {"https://nextjs.org/docs", "https://react.dev/blog/2024"}
ScoreInputs == {None, Some(0), Some(5), Some(8)}
CountInputs == {MinCount - 1, MinCount, MaxCount, MaxCount + 5}
MinScoreInputs == {0 - 5, 0, 5}

\* SearchResult(title=..., url=..., description=..., age=..., score=...)
SearchResult(title, url, description, age, score) ==
  [title |-> title, url |-> url, description |-> description, age |-> age, score |-> score]

\* the entries of data["web"]["results"], already read with .get
WebResults ==
  {SearchResult("Result", u, "About the topic",
                IF u = "https://nextjs.org/docs" THEN None ELSE Some("2 days ago"), sc) :
     u \in Urls, sc \in ScoreInputs}

\* what the search API answers: a transport failure, a status, or results
WebResponse(net, status, results) == [net |-> net, status |-> status, results |-> results]
WebResponses ==
  {WebResponse(f, 0, <<>>) : f \in NetFailures}
    \cup {WebResponse("ok", st, <<>>) : st \in {401, 429, 500}}
    \cup {WebResponse("ok", 200, r) : r \in SeqsUpTo(WebResults, MaxResults)}

WebSearchError(msg) == Exc("WebSearchError", 0, msg)

\* count = min(max(count, 1), 20)
clamp_count(count) ==
  LET lower == IF count > MinCount THEN count ELSE MinCount
  IN IF lower < MaxCount THEN lower ELSE MaxCount

\* WebSearchTool.search(query, count), the other parameters at their defaults
search(query, count, web) ==
  LET params == [q |-> query, count |-> clamp_count(count), offset |-> 0, country |-> "US",
                 search_lang |-> "en", ui_lang |-> "en-US", safesearch |-> "moderate"]
  IN IF web.net # "ok"
     THEN [params |-> params, results |-> <<>>,
           exc |-> WebSearchError(<<"Search failed: ", web.net>>)]
     ELSE IF ~is_success(web.status)
     THEN [params |-> params, results |-> <<>>,
           exc |-> IF web.status = 401
                   THEN WebSearchError(<<"Invalid Brave Search API key">>)
                   ELSE IF web.status = 429
                   THEN WebSearchError(<<"Rate limit exceeded for Brave Search API">>)
                   ELSE WebSearchError(<<"HTTP error ", ToString(web.status), ": ">>)]
     ELSE [params |-> params, results |-> web.results, exc |-> NoExc]

\* urlparse(url).netloc
netloc(url) ==
  CASE url = "https://nextjs.org/docs" -> "nextjs.org"
    [] url = "https://react.dev/blog/2024" -> "react.dev"
    [] OTHER -> ""

\* domain_counts: the domains in the order they first occur, each with the
\* number of its occurrences
RECURSIVE count_domains(_, _)
count_domains(domains, counts) ==
  IF domains = <<>> THEN counts
  ELSE LET d == Head(domains)
           known == \E i \in 1..Len(counts) : counts[i][1] = d
           next == IF known
                   THEN [i \in 1..Len(counts) |->
                           IF counts[i][1] = d THEN <<d, counts[i][2] + 1>> ELSE counts[i]]
                   ELSE Append(counts, <<d, 1>>)
       IN count_domains(Tail(domains), next)

\* sorted(items, key=count, reverse=True): the sort is stable, items of the
\* same count keep their order
RECURSIVE insert_by_count(_, _)
insert_by_count(sorted, item) ==
  IF sorted = <<>> THEN <<item>>
  ELSE IF Head(sorted)[2] >= item[2]
  THEN <<Head(sorted)>> \o insert_by_count(Tail(sorted), item)
  ELSE <<item>> \o sorted

RECURSIVE sorted_by_count(_)
sorted_by_count(items) ==
  IF items = <<>> THEN <<>>
  ELSE insert_by_count(sorted_by_count(SubSeq(items, 1, Len(items) - 1)), items[Len(items)])

RECURSIVE sum(_)
sum(scores) == IF scores = <<>> THEN 0 ELSE Head(scores) + sum(Tail(scores))

\* the average sum(scores) / len(scores) is kept as its two terms
_analyze_results(results) ==
  IF results = <<>> THEN [summary |-> <<"No results found">>]
  ELSE LET domains == [i \in 1..Len(results) |-> netloc(results[i].url)]
           top == sorted_by_count(count_domains(domains, <<>>))
           scored == SelectSeq(results, LAMBDA r : r.score # None)
           scores == [i \in 1..Len(scored) |-> scored[i].score[1]]
       IN [total_results |-> Len(results),
           top_domains |-> SubSeq(top, 1, IF Len(top) < TopDomains THEN Len(top) ELSE TopDomains),
           average_score |-> IF scores = <<>> THEN None
                             ELSE Some([sum |-> sum(scores), len |-> Len(scores)]),
           has_recent_results |->
             \E i \in 1..Len(results) : results[i].age # None /\ results[i].age # Some(""),
           summary |-> <<"Found ", ToString(Len(results)), " results from ",
                         ToString(Cardinality({domains[i] : i \in 1..Len(domains)})),
                         " unique domains">>]

\* a filter that also drops the results whose score equals min_score
score_filter_strict(results, min_score) ==
  IF min_score > 0
  THEN SelectSeq(results, LAMBDA r : r.score = None \/ r.score[1] > min_score)
  ELSE results

\* lines 168-174: the results kept by min_score
score_filter(results, min_score) ==
  IF min_score > 0
  THEN SelectSeq(results, LAMBDA r : r.score = None \/ r.score[1] >= min_score)
  ELSE results

search_with_analysis(query, count, min_score, web) ==
  LET s == search(query, count, web)
  IN IF s.exc # NoExc
     THEN [params |-> s.params, outcome |-> "raise", ret |-> None,
           err |-> WebSearchError(<<"Search with analysis failed: ">> \o s.exc.msg)]
     ELSE LET filtered_results == score_filter(s.results, min_score)
          IN [params |-> s.params, outcome |-> "return",
              ret |-> Some([query |-> query,
                            total_results |-> Len(s.results),
                            filtered_results |-> Len(filtered_results),
                            results |-> filtered_results,
                            analysis |-> _analyze_results(filtered_results)]),
              err |-> NoExc]

\* ------------------------------------------- discover_tools calls in flight
\* the two discover_tools coroutines started on the one session
Calls == {"first", "second"}

\* a coroutine that has not reached its await yet
Idle == [pc |-> "idle", request |-> <<>>, resp |-> NoResponse, outcome |-> "none",
         ret |-> None, err |-> NoExc]

\* no call started, none resumed
NoTasks == [call |-> [c \in Calls |-> Idle], order |-> <<>>]

\* no function of the workflow has run
NoRun == [fn |-> "none"]

\* a constructor that already lists the server's tools
Init_eager ==
  /\ config \in {MCPClientConfig(tok, r) :
                   tok \in {None} \cup {Some(k) : k \in Tokens}, r \in RetryValues}
  /\ client = AsyncClient(config.timeout, _get_headers(config))
  /\ _available_tools = Some(<<>>)
  /\ wire = 1
  /\ ops = 0
  /\ last = NoOp
  /\ lastGood = Some(<<>>)
  /\ block = NoBlock
  /\ built = NoBuild
  /\ tasks = NoTasks
  /\ run = NoRun

\* MCPClient.__init__
Init ==
  /\ config \in {MCPClientConfig(tok, r) :
                   tok \in {None} \cup {Some(k) : k \in Tokens}, r \in RetryValues}
  /\ client = AsyncClient(config.timeout, _get_headers(config))
  /\ _available_tools = None
  /\ wire = 0
  /\ ops = 0
  /\ last = NoOp
  /\ lastGood = None
  /\ block = NoBlock
  /\ built = NoBuild
  /\ tasks = NoTasks
  /\ run = NoRun

\* the name sequence a discovery response reports, an entry without a name
\* reporting none
ReportedNames(resp) ==
  LET data == resp.body.data
      result == IF "result" \in DOMAIN data.v THEN data.v["result"] ELSE EmptyDict
      tools == IF "tools" \in DOMAIN result.v THEN result.v["tools"].v ELSE <<>>
  IN [i \in 1..Len(tools) |->
        IF "name" \in DOMAIN tools[i].v THEN tools[i].v["name"] ELSE JNull]

\* the session is called directly or inside its async with block; once the
\* block is left the name bound by it is not used again
InUse == block.scope # "left"

Discover ==
  /\ ops < MaxOps
  /\ InUse
  /\ \E resp \in Responses(DiscoverBodies) :
       LET r == discover_tools(client, _available_tools, resp)
       IN /\ _available_tools' = r.cache
          /\ wire' = wire + Len(r.sent)
          /\ last' = Op("discover_tools", "", EmptyDict, resp, r, client, _available_tools)
          /\ lastGood' = IF r.outcome = "return" THEN Some(ReportedNames(resp)) ELSE lastGood
  /\ ops' = ops + 1
  /\ UNCHANGED <<config, client, block, built, tasks, run>>

CallTool ==
  /\ ops < MaxOps
  /\ InUse
  /\ \E tool_name \in CallNames, arguments \in Arguments, resp \in Responses(CallBodies) :
       LET r == call_tool(client, tool_name, arguments, resp)
       IN /\ wire' = wire + Len(r.sent)
          /\ last' = Op("call_tool", tool_name, arguments, resp, r, client, _available_tools)
  /\ ops' = ops + 1
  /\ UNCHANGED <<config, client, _available_tools, lastGood, block, built, tasks, run>>

Close ==
  /\ ops < MaxOps
  /\ InUse
  /\ LET r == close(client)
     IN /\ client' = r.client
        /\ last' = Op("close", "", EmptyDict, NoResponse,
                      [sent |-> <<>>, outcome |-> r.outcome, ret |-> None, err |-> r.err],
                      client, _available_tools)
  /\ ops' = ops + 1
  /\ UNCHANGED <<config, _available_tools, wire, lastGood, block, built, tasks, run>>

\* async with MCPClient(config) as client: the block is entered on a fresh
\* session
Aenter ==
  /\ block.scope = "none"
  /\ ops = 0
  /\ block' = [block EXCEPT !.scope = __aenter__(client)]
  /\ UNCHANGED <<config, client, _available_tools, wire, ops, last, lastGood, built, tasks, run>>

\* the exceptions that can end the block: none, the error the last
\* operation raised, or an exception of the block's own code
BlockEndings ==
  {NoExc, Exc("AssertionError", 0, <<"assert isinstance(tools, list)">>)}
    \cup (IF last.op \in {"discover_tools", "call_tool"} /\ last.outcome = "raise"
          THEN {last.err} ELSE {})

\* the block is left, normally or by an exception
Aexit ==
  /\ block.scope = "inside"
  /\ \E exc \in BlockEndings :
       LET x == __aexit__(client, exc)
       IN /\ client' = x.client
          /\ block' = [scope |-> "left", ended_by |-> exc, propagated |-> with_exit(exc, x)]
          /\ last' = Op("close", "", EmptyDict, NoResponse,
                        [sent |-> <<>>, outcome |-> IF x.exc = NoExc THEN "return" ELSE "raise",
                         ret |-> None, err |-> x.exc],
                        client, _available_tools)
  /\ UNCHANGED <<config, _available_tools, wire, ops, lastGood, built, tasks, run>>

Next == Discover \/ CallTool \/ Close \/ Aenter \/ Aexit

Spec == Init /\ [][Next]_vars

\* a ResearchRequest is constructed from a topic and an optional depth
Construct ==
  /\ built.n < MaxBuilds
  /\ \E topic \in Topics, search_depth \in DepthInputs :
       LET r == ResearchRequest(topic, search_depth)
       IN built' = [n |-> built.n + 1, topic |-> topic, given |-> search_depth,
                    outcome |-> r.outcome, request |-> r.request]
  /\ UNCHANGED <<config, client, _available_tools, wire, ops, last, lastGood, block, tasks, run>>

NextModels == Construct

\* the data models alone: requests are constructed, the session is not used
SpecModels == Init /\ [][NextModels]_vars

\* discover_tools up to its await: the request is built and handed to the
\* transport, and the coroutine is suspended until the response arrives
DiscoverSend(c) ==
  /\ tasks.call[c].pc = "idle"
  /\ LET p == post(client, DiscoverRequest(client), NoResponse)
     IN IF p.sent = <<>>
        THEN LET r == discover_tools(client, _available_tools, NoResponse)
             IN /\ tasks' = [call |-> [tasks.call EXCEPT ![c] =
                                         [pc |-> "done", request |-> r.sent, resp |-> NoResponse,
                                          outcome |-> r.outcome, ret |-> r.ret, err |-> r.err]],
                             order |-> Append(tasks.order, c)]
                /\ _available_tools' = r.cache
                /\ wire' = wire
        ELSE /\ tasks' = [tasks EXCEPT !.call[c] =
                            [pc |-> "awaiting", request |-> p.sent, resp |-> NoResponse,
                             outcome |-> "none", ret |-> None, err |-> NoExc]]
             /\ wire' = wire + Len(p.sent)
             /\ UNCHANGED _available_tools
  /\ UNCHANGED <<config, client, ops, last, lastGood, block, built, run>>

\* discover_tools from its await on: the response has arrived, and the status
\* check, the decoding, the name list and the assignment to the cache run
\* without another await, so no other coroutine runs in between
DiscoverResume(c) ==
  /\ tasks.call[c].pc = "awaiting"
  /\ \E resp \in Responses(DiscoverBodies) :
       LET r == discover_tools(client, _available_tools, resp)
       IN /\ tasks' = [call |-> [tasks.call EXCEPT ![c] =
                                   [pc |-> "done", request |-> tasks.call[c].request,
                                    resp |-> resp, outcome |-> r.outcome,
                                    ret |-> r.ret, err |-> r.err]],
                       order |-> Append(tasks.order, c)]
          /\ _available_tools' = r.cache
  /\ UNCHANGED <<config, client, wire, ops, last, lastGood, block, built, run>>

NextConcurrent == \E c \in Calls : DiscoverSend(c) \/ DiscoverResume(c)

\* two discover_tools calls share the session and are resumed in any order
SpecConcurrent == Init /\ [][NextConcurrent]_vars

\* the session a helper function is handed: open, or closed by its owner
Sessions == {client, close(client).client}

\* get_project_status_via_mcp(client, project_name)
GetProjectStatusViaMcp ==
  /\ run = NoRun
  /\ \E cl \in Sessions, project_name \in ProjectNames,
        resp1 \in Responses(CallBodies), resp2 \in Responses(CallBodies) :
       \E r \in {get_project_status_via_mcp(cl, project_name, resp1, resp2)} :
         run' = [fn |-> "get_project_status_via_mcp", project_name |-> project_name,
                  calls |-> r.calls, outcome |-> r.outcome, ret |-> r.ret, err |-> r.err]
  /\ UNCHANGED <<config, client, _available_tools, wire, ops, last, lastGood, block, built,
                 tasks>>

\* create_task_via_mcp(client, title, description, project_name, ...)
CreateTaskViaMcp ==
  /\ run = NoRun
  /\ \E cl \in Sessions, priority \in Priorities, estimated_hours \in HoursInputs,
        assigned_to \in AssigneeInputs, tags \in TagsInputs,
        resp \in Responses(CallBodies) :
       \E r \in {create_task_via_mcp(cl, "Set up project", "Create the repository",
                                    "Research Project", priority, estimated_hours,
                                    assigned_to, tags, resp)} :
         run' = [fn |-> "create_task_via_mcp", session |-> cl, resp |-> resp,
                  title |-> "Set up project", description |-> "Create the repository",
                  project_name |-> "Research Project", priority |-> priority,
                  estimated_hours |-> estimated_hours, assigned_to |-> assigned_to,
                  tags |-> tags,
                  calls |-> r.calls, outcome |-> r.outcome, ret |-> r.ret, err |-> r.err]
  /\ UNCHANGED <<config, client, _available_tools, wire, ops, last, lastGood, block, built,
                 tasks>>

\* conduct_research_and_create_project(request, dependencies)
Conduct ==
  /\ run = NoRun
  /\ \E topic \in Topics, dependencies \in DependencyInputs,
        session_id \in SessionIds, agent \in AgentOutcomes :
       \E request \in {ResearchRequest(topic, None).request[1]} :
       \E r \in {conduct_research_and_create_project(request, dependencies, session_id, agent)} :
          run' = [fn |-> "conduct_research_and_create_project", request |-> request,
                  dependencies |-> dependencies, session_id |-> session_id,
                  agent |-> agent, outcome |-> r.outcome, agent_runs |-> r.agent_runs,
                  agent_deps |-> r.agent_deps, caught |-> r.caught,
                  response |-> r.response]
  /\ UNCHANGED <<config, client, _available_tools, wire, ops, last, lastGood, block, built,
                 tasks>>

\* _extract_project_data_from_mcp_response(response_text)
Extract ==
  /\ run = NoRun
  /\ \E response_text \in Texts :
       run' = [fn |-> "_extract_project_data_from_mcp_response",
               response_text |-> response_text,
               ret |-> _extract_project_data_from_mcp_response(response_text)]
  /\ UNCHANGED <<config, client, _available_tools, wire, ops, last, lastGood, block, built,
                 tasks>>

\* the agent's tool parse_prp_and_create_project(ctx, prp_content, project_name)
ParsePrp ==
  /\ run = NoRun
  /\ \E deps \in DependencyInputs, project_name \in ProjectNames,
        resp \in Responses(ParseBodies) :
       \E r \in {parse_prp_and_create_project(deps, "# PRP", project_name, resp)} :
         run' = [fn |-> "parse_prp_and_create_project", deps |-> deps,
                  project_name |-> project_name, resp |-> resp,
                  calls |-> r.calls, session |-> r.session, left_by |-> r.left_by,
                  outcome |-> r.outcome, ret |-> r.ret, err |-> r.err]
  /\ UNCHANGED <<config, client, _available_tools, wire, ops, last, lastGood, block, built,
                 tasks>>

\* the agent's tool get_project_status(ctx, project_name)
GetProjectStatus ==
  /\ run = NoRun
  /\ \E deps \in DependencyInputs, project_name \in ProjectNames,
        resp1 \in Responses(CallBodies), resp2 \in Responses(CallBodies) :
       \E r \in {get_project_status(deps, project_name, resp1, resp2)} :
         run' = [fn |-> "get_project_status", deps |-> deps,
                  project_name |-> project_name,
                  calls |-> r.calls, session |-> r.session, left_by |-> r.left_by,
                  outcome |-> r.outcome, ret |-> r.ret, err |-> r.err]
  /\ UNCHANGED <<config, client, _available_tools, wire, ops, last, lastGood, block, built,
                 tasks>>

\* WebSearchTool.search_with_analysis(query, count, min_score)
SearchWithAnalysis ==
  /\ run = NoRun
  /\ \E query \in Topics, count \in CountInputs, min_score \in MinScoreInputs,
        web \in WebResponses :
       \E r \in {search_with_analysis(query, count, min_score, web)} :
         run' = [fn |-> "search_with_analysis", query |-> query, count |-> count,
                  min_score |-> min_score, web |-> web, params |-> r.params,
                  outcome |-> r.outcome, ret |-> r.ret, err |-> r.err]
  /\ UNCHANGED <<config, client, _available_tools, wire, ops, last, lastGood, block, built,
                 tasks>>

NextTools ==
  \/ GetProjectStatusViaMcp \/ CreateTaskViaMcp \/ Conduct \/ Extract
  \/ ParsePrp \/ GetProjectStatus \/ SearchWithAnalysis

\* the functions built on the session, each run once on inputs of its own
SpecTools == Init /\ [][NextTools]_vars

\* ================================================================ claims
IsCall == last.op = "call_tool"
IsDiscover == last.op = "discover_tools"

\* the operation put its request on the wire and the server answered it
Answered == last.sent # <<>> /\ last.resp.net = "ok"

\* the answer has status 200 and a body that parses to a JSON object
AnsweredObject ==
  /\ Answered
  /\ last.resp.status = 200
  /\ last.resp.body.valid
  /\ last.resp.body.data.t = "obj"

HasKey(obj, key) == obj.t = "obj" /\ key \in DOMAIN obj.v

\* the text piece occurs in the message
Includes(msg, piece) == \E i \in 1..Len(msg) : msg[i] = piece

\* result.tools is a sequence of mappings each carrying a name, and no error
NamedTools(data) ==
  /\ ~HasKey(data, "error")
  /\ HasKey(data, "result")
  /\ HasKey(data.v["result"], "tools")
  /\ data.v["result"].v["tools"].t = "arr"
  /\ \A i \in 1..Len(data.v["result"].v["tools"].v) :
       HasKey(data.v["result"].v["tools"].v[i], "name")

\* C1: a successful discovery response whose result.tools is a sequence of
\* named mappings makes discover_tools return exactly those names, in the
\* server's order and with duplicates kept, and the cache read right after
\* the call equals the returned sequence.
C1_DiscoveryReturnsNames ==
  (IsDiscover /\ AnsweredObject /\ NamedTools(last.resp.body.data))
    => /\ last.outcome = "return"
       /\ last.ret = Some(ReportedNames(last.resp))
       /\ _available_tools = last.ret

\* a discovery that reported the same name twice and replaced an older cache
C1_Witness ==
  /\ IsDiscover /\ AnsweredObject /\ NamedTools(last.resp.body.data)
  /\ last.ret = Some(<<JStr("parsePRP"), JStr("parsePRP")>>)
  /\ last.cache_before = Some(<<JStr("createTask")>>)
  /\ _available_tools = last.ret

\* C2: the cache is absent while no discovery has succeeded and otherwise is
\* the complete name sequence of the most recent successful discovery; a
\* discovery that fails leaves the cache as it was before the call.
C2_CacheIsLastSuccess ==
  /\ _available_tools = lastGood
  /\ (IsDiscover /\ last.outcome = "raise") => _available_tools = last.cache_before

\* a discovery failed on an unnamed second entry while the cache was populated
C2_Witness ==
  /\ IsDiscover /\ AnsweredObject
  /\ last.outcome = "raise"
  /\ last.resp.body.data =
       JObj([result |-> JObj([tools |-> JArr(<<JObj([name |-> JStr("createTask")]),
                                              JObj([description |-> JStr("no name")])>>)])])
  /\ _available_tools = Some(<<JStr("parsePRP")>>)

\* C3: an HTTP 401 answer to discover_tools or call_tool raises
\* MCPAuthenticationError, not the base MCPClientError.
C3_Auth401 ==
  ((IsDiscover \/ IsCall) /\ Answered /\ last.resp.status = 401)
    => /\ last.outcome = "raise"
       /\ last.err.cls = "MCPAuthenticationError"

C3_Witness ==
  /\ IsDiscover /\ Answered /\ last.resp.status = 401
  /\ last.err.cls = "MCPAuthenticationError"

\* the message call_tool gives a status that is neither 401 nor 404
GenericStatusMsg(tool_name, status) ==
  <<"HTTP error calling tool '", tool_name, "': ", "HTTP status ", ToString(status)>>

C5_ServerErrorKind ==
  ((IsDiscover \/ IsCall) /\ AnsweredObject /\ HasKey(last.resp.body.data, "error"))
    => /\ last.outcome = "raise"
       /\ last.err.cls = "MCPServerError"
       /\ \A m \in ServerMessages :
            last.resp.body.data.v["error"] = JObj([message |-> JStr(m)])
              => Includes(last.err.msg, m)

\* C6 as stated: call_tool with an empty tool name fails before any request
\* is sent.
C6_EmptyNameRejected ==
  (IsCall /\ last.tool_name = "")
    => /\ last.outcome = "raise"
       /\ last.sent = <<>>

\* C7 as stated: a normal return means the answer carried the envelope, a
\* result field, and for discovery a tools field inside it.
C7_ReturnMeansEnvelope ==
  ((IsDiscover \/ IsCall) /\ last.outcome = "return")
    => /\ AnsweredObject
       /\ ~HasKey(last.resp.body.data, "error")
       /\ HasKey(last.resp.body.data, "result")
       /\ IsDiscover => HasKey(last.resp.body.data.v["result"], "tools")

\* the one POST of a call_tool carries the given name and arguments
CallPosted ==
  /\ Len(last.sent) = 1
  /\ last.sent[1].method = "POST"
  /\ last.sent[1].url = <<config.server_url, "/tools/call">>
  /\ last.sent[1].json.params.name = last.tool_name
  /\ last.sent[1].json.params.arguments = last.arguments

\* C8 as stated: every call_tool produces exactly one POST to
\* {server_url}/tools/call carrying the given name and arguments.
C8_EveryCallPosts == IsCall => CallPosted

\* C8 amended: a call_tool on a session that has not been closed produces
\* exactly one such POST; on a closed session it sends nothing and raises
\* MCPClientError.
C8_OpenCallPosts ==
  /\ (IsCall /\ ~last.was_closed) => CallPosted
  /\ (IsCall /\ last.was_closed)
       => /\ last.sent = <<>>
          /\ last.outcome = "raise"
          /\ last.err.cls = "MCPClientError"

C8_Witness ==
  /\ IsCall /\ ~last.was_closed
  /\ last.tool_name = "createTask"
  /\ last.arguments # EmptyDict
  /\ CallPosted

\* the answer is a failure: no answer, a non-2xx status, a body that is not
\* JSON, or an error field
Failed ==
  \/ last.resp.net # "ok"
  \/ ~is_success(last.resp.status)
  \/ ~last.resp.body.valid
  \/ HasKey(last.resp.body.data, "error")

C10_CloseNeverRaises == last.op = "close" => last.outcome = "return"

\* the session was closed twice and never sent a request
C10_Witness ==
  /\ last.op = "close"
  /\ last.was_closed
  /\ wire = 0
  /\ last.outcome = "return"

\* C11: a session used through async with has its transport closed when the
\* block is left, on every exit path (normal end, an operation that raised,
\* any other exception of the block), not by entering the block, and the
\* exception that ended the block still reaches the caller.
C11_BlockReleasesTransport ==
  /\ block.scope = "left"
       => /\ client.is_closed
          /\ block.propagated = block.ended_by
  /\ (block.scope = "inside" /\ ops = 0) => ~client.is_closed

\* the block was left by an operation's authentication error
C11_Witness ==
  /\ block.scope = "left"
  /\ block.ended_by.cls = "MCPAuthenticationError"
  /\ block.propagated.cls = "MCPAuthenticationError"
  /\ client.is_closed
  /\ wire = 1

\* the answer has a 2xx status and a body that is not JSON
MalformedAnswer == Answered /\ is_success(last.resp.status) /\ ~last.resp.body.valid

\* the request was sent and no answer came: connection failure or timeout
NoAnswer == last.sent # <<>> /\ last.resp.net # "ok"

\* a non-2xx status the operation does not single out
OtherStatus ==
  /\ Answered
  /\ ~is_success(last.resp.status)
  /\ last.resp.status # 401
  /\ ~(IsCall /\ last.resp.status = 404)

StartsWith(msg, pre) == Len(msg) >= Len(pre) /\ SubSeq(msg, 1, Len(pre)) = pre

FailedPrefix ==
  IF IsDiscover THEN <<"Failed to discover tools: ">>
  ELSE <<"Failed to call tool '", last.tool_name, "': ">>

StatusPrefix ==
  IF IsDiscover THEN <<"HTTP error during tool discovery: ">>
  ELSE <<"HTTP error calling tool '", last.tool_name, "': ">>

\* the kind the operation raises for a connection failure
TransportKind ==
  LET e == Exc("ConnectError", 0, <<"ConnectError">>)
  IN IF IsDiscover THEN discover_except(e).cls ELSE call_except(last.tool_name, e).cls

C13_ResultUnmodified ==
  (IsCall /\ AnsweredObject /\ ~HasKey(last.resp.body.data, "error")
     /\ HasKey(last.resp.body.data, "result"))
    => /\ last.outcome = "return"
       /\ last.ret = Some(last.resp.body.data.v["result"])

C13_Witness ==
  /\ IsCall /\ last.outcome = "return"
  /\ last.ret \in {Some(r) : r \in ContentResults}
  /\ HasKey(last.resp.body.data, "result")

\* C14: the cache differs from its value before the last operation only
\* after a discover_tools that returned; call_tool and close leave it alone.
C14_OnlyDiscoveryWritesCache ==
  _available_tools # last.cache_before => (IsDiscover /\ last.outcome = "return")

\* a call_tool returned and the populated cache is what it was
C14_Witness ==
  /\ IsCall /\ last.outcome = "return"
  /\ last.cache_before = Some(<<JStr("parsePRP"), JStr("createTask")>>)
  /\ _available_tools = last.cache_before

\* the headers the configuration calls for
BaselineHeaders ==
  [k \in {"Content-Type", "User-Agent"}
           \cup (IF config.github_token = None THEN {} ELSE {"Authorization"}) |->
     CASE k = "Content-Type" -> <<"application/json">>
       [] k = "User-Agent" -> <<"Research-Agent-MCP-Client/1.0">>
       [] k = "Authorization" -> <<"Bearer ", config.github_token[1]>>]

C16_OpenSendsNothing ==
  /\ ops = 0 => (wire = 0 /\ _available_tools = None)
  /\ wire > 0 => ops > 0

\* the first operation of the session sent the first request
C16_Witness ==
  /\ ops = 1
  /\ wire = 1
  /\ Len(last.sent) = 1
  /\ last.cache_before = None

\* C17: every envelope has jsonrpc "2.0" and id 1 however many requests came
\* before; discovery posts method tools/list with empty params to
\* /tools/list, invocation posts method tools/call to /tools/call.
C17_Envelope ==
  \A i \in 1..Len(last.sent) :
    /\ last.sent[i].method = "POST"
    /\ last.sent[i].json.jsonrpc = "2.0"
    /\ last.sent[i].json.id = 1
    /\ IsDiscover
         => /\ last.sent[i].json.method = "tools/list"
            /\ DOMAIN last.sent[i].json.params = {}
            /\ last.sent[i].url = <<config.server_url, "/tools/list">>
    /\ IsCall
         => /\ last.sent[i].json.method = "tools/call"
            /\ last.sent[i].url = <<config.server_url, "/tools/call">>

\* the third request of a session is an invocation with id 1
C17_Witness ==
  /\ wire = 3
  /\ IsCall
  /\ Len(last.sent) = 1
  /\ last.sent[1].json.id = 1
  /\ last.sent[1].json.method = "tools/call"

\* result.tools is a sequence of mappings of which one has no name
UnnamedEntry(data) ==
  /\ ~HasKey(data, "error")
  /\ HasKey(data, "result")
  /\ HasKey(data.v["result"], "tools")
  /\ data.v["result"].v["tools"].t = "arr"
  /\ \E i \in 1..Len(data.v["result"].v["tools"].v) :
       ~HasKey(data.v["result"].v["tools"].v[i], "name")

\* C19: a discovery response with an entry that has no name makes the whole
\* call fail and leaves the cache as it was, never holding the names that
\* came before the bad entry.
C19_UnnamedEntryFails ==
  (IsDiscover /\ AnsweredObject /\ UnnamedEntry(last.resp.body.data))
    => /\ last.outcome = "raise"
       /\ last.err.cls = "MCPClientError"
       /\ _available_tools = last.cache_before

\* the bad entry came second and the cache stayed absent
C19_Witness ==
  /\ IsDiscover /\ AnsweredObject
  /\ UnnamedEntry(last.resp.body.data)
  /\ last.resp.body.data.v["result"].v["tools"].v
       = <<JObj([name |-> JStr("parsePRP")]), JObj([description |-> JStr("no name")])>>
  /\ last.outcome = "raise"
  /\ _available_tools = None

\* C20: whatever discover_tools or call_tool raises is MCPClientError or one
\* of its subclasses; no httpx, JSON, KeyError or AttributeError escapes.
C20_OnlyClientErrors ==
  ((IsDiscover \/ IsCall) /\ last.outcome = "raise")
    => last.err.cls \in ClientErrorKinds

\* an AttributeError on a string error field reached the caller wrapped
C20_Witness ==
  /\ IsCall /\ AnsweredObject
  /\ last.resp.body.data = JObj([error |-> JStr("boom")])
  /\ last.outcome = "raise"
  /\ last.err.cls = "MCPClientError"
  /\ Includes(last.err.msg, "object has no attribute 'get'")

\* C18: a ResearchRequest is accepted exactly when its search_depth is in
\* 1..20, 10 standing for an omitted one; below 1 or above 20 construction
\* fails with a validation error and yields no request.
C18_SearchDepthRange ==
  built.outcome # "none"
    => LET depth == IF built.given = None THEN 10 ELSE built.given[1]
       IN /\ built.outcome = "ok" <=> (1 <= depth /\ depth <= 20)
          /\ built.outcome = "ok"
               => /\ built.request # None
                  /\ built.request[1].search_depth = depth
                  /\ built.request[1].topic = built.topic
          /\ built.outcome # "ok"
               => /\ built.outcome = "ValidationError"
                  /\ built.request = None

\* the second construction was given the depth 20 and accepted it
C18_Witness ==
  /\ built.n = 2
  /\ built.given = Some(20)
  /\ built.outcome = "ok"
  /\ built.request[1].search_depth = 20

\* every call has been resumed and has returned
AllReturned == \A c \in Calls : tasks.call[c].pc = "done" /\ tasks.call[c].outcome = "return"

\* the call that was resumed last
LastResumed == tasks.call[tasks.order[Len(tasks.order)]]

\* C21: when two discover_tools calls are in flight on one session and their
\* responses are processed in either order, the cache after both have
\* returned is the complete name sequence of the response processed last,
\* never a mixture of the two, and both requests carry the id 1.
C21_LastProcessedWins ==
  /\ \A c \in Calls :
       tasks.call[c].pc # "idle"
         => /\ Len(tasks.call[c].request) = 1
            /\ tasks.call[c].request[1].json.id = 1
  /\ AllReturned
       => /\ _available_tools = Some(ReportedNames(LastResumed.resp))
          /\ _available_tools = LastResumed.ret

\* the second call was resumed first with two names, then the first call
\* with one other name, and the cache holds only that one
C21_Witness ==
  /\ AllReturned
  /\ tasks.order = <<"second", "first">>
  /\ tasks.call["second"].ret = Some(<<JStr("parsePRP"), JStr("createTask")>>)
  /\ tasks.call["first"].ret = Some(<<JStr("createTask")>>)
  /\ _available_tools = Some(<<JStr("createTask")>>)
  /\ wire = 2

IsStatusViaMcp == run.fn = "get_project_status_via_mcp"

\* C22: in get_project_status_via_mcp any failure of the listDocumentation
\* call is replaced by the placeholder documentation result, and the
\* function still returns a mapping with the status "active" and the tasks
\* result; no error of the documentation probe reaches the caller.
C22_DocsFailureReplaced ==
  (IsStatusViaMcp /\ Len(run.calls) = 2 /\ run.calls[2].outcome = "raise")
    => /\ run.outcome = "return"
       /\ run.err = NoExc
       /\ run.ret[1].status = "active"
       /\ run.ret[1].tasks = run.calls[1].ret[1]
       /\ run.ret[1].documentation = DocsPlaceholder

\* listTasks returned and listDocumentation was answered with status 401
C22_Witness ==
  /\ IsStatusViaMcp /\ Len(run.calls) = 2
  /\ run.calls[1].outcome = "return"
  /\ run.calls[2].tool_name = "listDocumentation"
  /\ run.calls[2].err.cls = "MCPAuthenticationError"
  /\ run.outcome = "return"
  /\ run.ret[1].documentation = DocsPlaceholder

\* C23: get_project_status_via_mcp calls listTasks first and
\* listDocumentation second, one after the other; when listTasks fails,
\* listDocumentation is never called and the function raises an
\* MCPClientError instead of returning a status mapping.
C23_TasksFirst ==
  IsStatusViaMcp
    => /\ Len(run.calls) \in {1, 2}
       /\ run.calls[1].tool_name = "listTasks"
       /\ Len(run.calls) = 2 <=> run.calls[1].outcome = "return"
       /\ Len(run.calls) = 2 => run.calls[2].tool_name = "listDocumentation"
       /\ run.calls[1].outcome = "raise"
            => /\ run.outcome = "raise"
               /\ run.ret = None
               /\ run.err.cls = "MCPClientError"

\* listTasks was answered with status 500: one request, an MCPClientError
C23_Witness ==
  /\ IsStatusViaMcp
  /\ Len(run.calls) = 1
  /\ Len(run.calls[1].sent) = 1
  /\ run.calls[1].err.cls = "MCPClientError"
  /\ run.outcome = "raise"
  /\ StartsWith(run.err.msg, <<"Failed to get project status for '", "Research Project", "': ">>)

IsCreateTask == run.fn = "create_task_via_mcp"

\* C24: create_task_via_mcp makes exactly one call_tool invocation of
\* createTask whose arguments always hold title, description, projectName
\* and priority, hold estimatedHours exactly when estimated_hours is not
\* None (0 included), assignedTo exactly when assigned_to is a non-empty
\* string, tags exactly when tags is a non-empty list, and no other key; the
\* result or error of that call is returned unchanged.
C24_CreateTaskArguments ==
  IsCreateTask
    => /\ Len(run.calls) = 1
       /\ run.calls[1].tool_name = "createTask"
       /\ LET a == run.calls[1].arguments.v
          IN /\ DOMAIN a =
                  {"title", "description", "projectName", "priority"}
                    \cup (IF run.estimated_hours # None THEN {"estimatedHours"} ELSE {})
                    \cup (IF run.assigned_to \notin {None, Some("")} THEN {"assignedTo"} ELSE {})
                    \cup (IF run.tags \notin {None, Some(<<>>)} THEN {"tags"} ELSE {})
             /\ a["title"] = JStr(run.title)
             /\ a["description"] = JStr(run.description)
             /\ a["projectName"] = JStr(run.project_name)
             /\ a["priority"] = JStr(run.priority)
             /\ run.estimated_hours # None => a["estimatedHours"] = JNum(run.estimated_hours[1])
             /\ "assignedTo" \in DOMAIN a => a["assignedTo"] = JStr(run.assigned_to[1])
             /\ "tags" \in DOMAIN a
                  => a["tags"] = JArr([i \in 1..Len(run.tags[1]) |-> JStr(run.tags[1][i])])
       /\ LET c == call_tool(run.session, "createTask", run.calls[1].arguments, run.resp)
          IN /\ run.outcome = c.outcome
             /\ run.ret = c.ret
             /\ run.err = c.err

\* zero hours, an empty assignee and an empty tag list were given: the
\* hours are forwarded, the other two are not, and the result is returned
C24_Witness ==
  /\ IsCreateTask
  /\ run.estimated_hours = Some(0)
  /\ run.assigned_to = Some("")
  /\ run.tags = Some(<<>>)
  /\ DOMAIN run.calls[1].arguments.v =
       {"title", "description", "projectName", "priority", "estimatedHours"}
  /\ run.calls[1].arguments.v["estimatedHours"] = JNum(0)
  /\ run.outcome = "return"
  /\ Len(run.calls[1].sent) = 1

IsConduct == run.fn = "conduct_research_and_create_project"

\* C25: conduct_research_and_create_project runs the research agent exactly
\* once per request, with dependencies equal to the given ones plus the
\* freshly generated session id, and whenever the agent run completes the
\* returned ResearchResponse copies success, search_results_count,
\* tasks_created, documentation_created, project_name, estimated_hours,
\* next_steps and error_message from the agent output, with prp_parsed equal
\* to success and the same session id.
C25_AgentRunOnce ==
  IsConduct
    => /\ run.agent_runs = 1
       /\ run.agent_deps =
            Some([run.dependencies EXCEPT !.session_id = Some(run.session_id)])
       /\ run.agent.exc = NoExc
            => LET data == run.agent.data[1]
                   response == run.response
               IN /\ response.success = data.success
                  /\ response.search_results_count = data.search_results_count
                  /\ response.tasks_created = data.tasks_created
                  /\ response.documentation_created = data.documentation_created
                  /\ response.project_name = Some(data.project_name)
                  /\ response.estimated_hours = Some(data.estimated_hours)
                  /\ response.next_steps = data.next_steps
                  /\ response.error_message = data.error_message
                  /\ response.prp_parsed = data.success
                  /\ response.session_id = run.session_id

\* C26: conduct_research_and_create_project never raises for a failure
\* inside the workflow: any exception raised while the dependencies are
\* built or the agent runs yields a ResearchResponse with success false,
\* prp_generated false, prp_parsed false, search_results_count 0, the
\* request's topic, the error text as error_message and the one session id
\* generated at the start.
C26_FailureResponse ==
  IsConduct
    => /\ run.outcome = "return"
       /\ run.caught # NoExc
            => /\ run.response.success = FALSE
               /\ run.response.prp_generated = FALSE
               /\ run.response.prp_parsed = FALSE
               /\ run.response.search_results_count = 0
               /\ run.response.topic = run.request.topic
               /\ run.response.error_message = Some(run.caught.msg)
               /\ run.response.session_id = run.session_id

\* building the dependencies failed: the response carries the TypeError's
\* text and the session id drawn at the start
C26_Witness ==
  /\ IsConduct
  /\ run.caught.cls = "TypeError"
  /\ run.session_id = "uuid-2"
  /\ run.response.session_id = "uuid-2"
  /\ run.response.success = FALSE
  /\ run.response.topic = "Test topic"
  /\ Includes(run.response.error_message[1], "session_id")

IsExtract == run.fn = "_extract_project_data_from_mcp_response"

\* the one marker a line is matched against: the first it contains, in the
\* order tasks, documentation, hours
MatchedMarker(line) ==
  IF contains(line, TasksMarker) THEN TasksMarker
  ELSE IF contains(line, DocsMarker) THEN DocsMarker
  ELSE IF contains(line, HoursMarker) THEN HoursMarker
  ELSE "none"

\* the lines matched against a marker whose text after the last colon is an
\* integer
Counting(text, marker) ==
  {i \in 1..Len(text) :
     MatchedMarker(text[i]) = marker /\ int(strip(text[i][Len(text[i])])) # None}

\* the integer of the last such line, 0 when there is none
LastCount(text, marker) ==
  LET c == Counting(text, marker)
  IN IF c = {} THEN 0
     ELSE LET i == CHOOSE j \in c : \A k \in c : k <= j
          IN int(strip(text[i][Len(text[i])]))[1]

\* C29: _extract_project_data_from_mcp_response returns tasks_created,
\* documentation_created and estimated_hours that each default to 0, are
\* set from the integer after the last colon of a line containing the
\* corresponding marker, take the value of the last such line with a
\* parsable integer, and keep their value when the text after the colon is
\* not an integer; a line is matched against at most one marker, in the
\* order tasks, documentation, hours.
C29_ExtractedCounts ==
  IsExtract
    => /\ run.ret.tasks_created = LastCount(run.response_text, TasksMarker)
       /\ run.ret.documentation_created = LastCount(run.response_text, DocsMarker)
       /\ run.ret.estimated_hours = LastCount(run.response_text, HoursMarker)

\* a line holding the tasks and the documentation marker set the tasks
\* only, and a later tasks line without an integer left them as they were
C29_Witness ==
  /\ IsExtract
  /\ run.response_text = <<<<TasksMarker, DocsMarker, " 5">>, <<TasksMarker, " 7 hours">>>>
  /\ run.ret = [tasks_created |-> 5, documentation_created |-> 0, estimated_hours |-> 0]

IsParsePrp == run.fn = "parse_prp_and_create_project"

\* the parsePRP call returned a result with a non-empty content sequence
ContentReturned ==
  /\ run.calls[1].outcome = "return"
  /\ HasKey(run.calls[1].ret[1], "content")
  /\ run.calls[1].ret[1].v["content"].t = "arr"
  /\ run.calls[1].ret[1].v["content"].v # <<>>

\* the parsePRP call returned a result without content
NoContentReturned ==
  /\ run.calls[1].outcome = "return"
  /\ \/ ~HasKey(run.calls[1].ret[1], "content")
     \/ run.calls[1].ret[1].v["content"] \in {EmptyList, JNull}

\* C27: parse_prp_and_create_project never raises: it returns success true
\* only when the parsePRP call succeeded and returned a non-empty content
\* sequence, returns success false with an error text when the call raised
\* or returned no content, and closes the MCP session it opened on every
\* one of these paths.
C27_ParseNeverRaises ==
  IsParsePrp
    => /\ run.outcome = "return"
       /\ run.session.is_closed
       /\ Len(run.calls) = 1 /\ run.calls[1].tool_name = "parsePRP"
       /\ run.ret[1].success => ContentReturned
       /\ (run.calls[1].outcome = "raise" \/ NoContentReturned)
            => /\ ~run.ret[1].success
               /\ run.ret[1].error # <<>>

\* the first content block was not a mapping: the AttributeError left the
\* block, the session was closed and the tool returned a failure
C27_Witness ==
  /\ IsParsePrp
  /\ run.calls[1].ret = Some(JObj([content |-> JArr(<<JNull>>)]))
  /\ run.left_by.cls = "AttributeError"
  /\ run.session.is_closed
  /\ run.outcome = "return"
  /\ ~run.ret[1].success
  /\ StartsWith(run.ret[1].error, <<"Unexpected error: ">>)

IsStatusTool == run.fn = "get_project_status"

\* C28: the agent's get_project_status tool never raises on an MCP failure:
\* when listTasks fails it returns a mapping with the status "error" and the
\* error text and makes no listDocumentation call, when listTasks succeeds it
\* returns the status "active" whether or not listDocumentation succeeds,
\* and the MCP session it opened is closed in every case.
C28_StatusToolNeverRaises ==
  IsStatusTool
    => /\ run.outcome = "return"
       /\ run.session.is_closed
       /\ run.calls[1].tool_name = "listTasks"
       /\ run.calls[1].outcome = "raise"
            => /\ Len(run.calls) = 1
               /\ run.ret[1].status = "error"
               /\ run.ret[1].error = run.calls[1].err.msg
       /\ run.calls[1].outcome = "return"
            => /\ Len(run.calls) = 2
               /\ run.calls[2].tool_name = "listDocumentation"
               /\ run.ret[1].status = "active"
               /\ run.ret[1].tasks = run.calls[1].ret[1]

\* listTasks was answered with status 401: no second call, the status
\* "error" with the authentication error's text, the session closed
C28_Witness ==
  /\ IsStatusTool
  /\ Len(run.calls) = 1
  /\ run.calls[1].err.cls = "MCPAuthenticationError"
  /\ run.left_by.cls = "MCPAuthenticationError"
  /\ run.ret[1].status = "error"
  /\ run.ret[1].error = <<"Authentication failed for tool '", "listTasks", "'">>
  /\ run.session.is_closed

IsSearch == run.fn = "search_with_analysis"

\* the results a search returned that min_score keeps: those without a
\* score and those whose score is at least min_score, all when min_score
\* is not positive
Kept(results, min_score) ==
  SelectSeq(results,
            LAMBDA r : min_score <= 0 \/ r.score = None \/ ~(r.score[1] < min_score))

\* C30: search_with_analysis returns filtered_results <= total_results,
\* keeps every result whose score is absent or at least min_score and drops
\* exactly the results whose score is present and below min_score (nothing
\* when min_score <= 0), and reports an analysis computed over the filtered
\* results only; the count forwarded to the search request is always
\* clamped into 1..20.
C30_FilteredSearch ==
  IsSearch
    => /\ run.params.count \in 1..20
       /\ run.count \in 1..20 => run.params.count = run.count
       /\ run.count < 1 => run.params.count = 1
       /\ run.count > 20 => run.params.count = 20
       /\ run.outcome = "return"
            => LET ret == run.ret[1]
               IN /\ ret.total_results = Len(run.web.results)
                  /\ ret.filtered_results <= ret.total_results
                  /\ ret.filtered_results = Len(ret.results)
                  /\ ret.results = Kept(run.web.results, run.min_score)
                  /\ ret.analysis = _analyze_results(Kept(run.web.results, run.min_score))
                  /\ ret.results # <<>> => ret.analysis.total_results = ret.filtered_results

\* of two results the one scored 0 was dropped and the one scored exactly
\* min_score was kept; the count 25 went out as 20 and the analysis covers
\* the one kept result
C30_Witness ==
  /\ IsSearch
  /\ run.count = 25 /\ run.params.count = 20
  /\ run.min_score = 5
  /\ run.outcome = "return"
  /\ run.ret[1].total_results = 2
  /\ run.ret[1].filtered_results = 1
  /\ run.web.results[1].score = Some(0)
  /\ run.ret[1].results[1].score = Some(5)
  /\ run.ret[1].analysis.total_results = 1
  /\ run.ret[1].analysis.average_score = Some([sum |-> 5, len |-> 1])

====
